---- MODULE Spec2Model ----
(***************************************************************************)
(* Model of reanalysis.py: peak detection with half-maximum intervals,     *)
(* window construction from two curves, and the log-log Tc scan.           *)
(*                                                                         *)
(* Numbers.  Scan values and temperatures are integers.  Wherever the      *)
(* source divides, the comparison it feeds is modelled exactly by          *)
(* cross-multiplication (v <= sum/len  <=>  v*len <= sum, v >= peak/2 <=>  *)
(* 2*v >= peak).  Python indices are 0-based; At(s, i) reads s[i].         *)
(***************************************************************************)
EXTENDS Integers, Sequences, FiniteSets, TLC

VARIABLES
    pc,         \* position of the running function
    temps,      \* temperatures (argument `temps` / column 0 of the scan)
    values,     \* two_peak_half_intervals: argument `values`
    peaks,      \* two_peak_half_intervals: local `peaks` after dedup
    bounds,     \* two_peak_half_intervals: (left_idx, right_idx) per slot
    result,     \* two_peak_half_intervals: returned list of two slots
    c_vals,     \* main: heat capacity column
    x_vals,     \* main: susceptibility column
    m_vals,     \* main: magnetization column / run_loglog_tc_scan: `mags`
    args,       \* main: parsed command line (tmin, tmax, tcmin, tcmax, tcstep)
    c_ints,     \* auto_windows_from_scan: c_ints
    chi_ints,   \* auto_windows_from_scan: chi_ints
    primary,    \* main: primary window
    secondary,  \* main: secondary window
    cfg,        \* run_loglog_tc_scan: t_min, t_max, tc_min, tc_max, tc_step
    results,    \* run_loglog_tc_scan: the scan table
    best,       \* run_loglog_tc_scan: the best record
    scanCalls,  \* number of calls of run_loglog_tc_scan made by main
    written     \* main: the output files have been written

peakVars == <<values, peaks, bounds, result>>

windowVars == <<c_vals, x_vals, args, c_ints, chi_ints, primary, secondary>>

scanVars == <<m_vals, cfg, results, best>>

vars == <<pc, temps, peakVars, windowVars, scanVars, scanCalls, written>>

----------------------------------------------------------------------------
(* Bounds of the model *)

MaxLen == 8       \* SpecPeak: longest series
MaxVal == 2       \* SpecPeak: largest sample value
ScanLen == 5      \* SpecScan: length of the scan series
MaxMag == 3       \* SpecScan: largest magnetization
MaxTcSpan == 3    \* SpecScan: largest tc_max - tc_min
MaxStep == 3      \* SpecScan: largest tc_step
MainLen == 7      \* SpecMain: length of the scan series

----------------------------------------------------------------------------
(* Python values *)

None == <<>>

At(s, i) == s[i + 1]

Min2(a, b) == IF a <= b THEN a ELSE b

RECURSIVE SumSeq(_)
SumSeq(s) == IF s = <<>> THEN 0 ELSE Head(s) + SumSeq(Tail(s))

\* range(n) as a sequence: <<0, 1, ..., n-1>>
Range(n) == [k \in 1..n |-> k - 1]

----------------------------------------------------------------------------
(* two_peak_half_intervals, lines 57-104 *)

\* StrongEnough with the neighbour count 3 of line 75 mistyped as 1
StrongEnough_OneNeighbour(vs, i) ==
    LET left_slice == SubSeq(vs, 1, i)
        sum_left   == SumSeq(left_slice)
        len_left   == Len(left_slice)
        max_k      == IF 1 <= i THEN 1 ELSE i
    IN  \A k \in 0..max_k : ~(At(vs, i - k) * len_left <= sum_left)

\* lines 72-80: the strength test of index i against the mean of values[:i]
StrongEnough(vs, i) ==
    LET left_slice == SubSeq(vs, 1, i)
        sum_left   == SumSeq(left_slice)
        len_left   == Len(left_slice)
        max_k      == Min2(3, i)
    IN  \A k \in 0..max_k : ~(At(vs, i - k) * len_left <= sum_left)

\* line 70: peaks in the first five samples are skipped
MinPeakIndex == 5

\* TooEarly with the comparison of line 70 off by one
TooEarly_OffByOne(i) == i < MinPeakIndex - 1

TooEarly(i) == i < MinPeakIndex

\* lines 66-82: does the loop body append i to peaks
IsPeak(vs, i) ==
    LET n        == Len(vs)
        v        == At(vs, i)
        left_ok  == i = 0 \/ v >= At(vs, i - 1)
        right_ok == i = n - 1 \/ v >= At(vs, i + 1)
    IN  /\ left_ok /\ right_ok /\ v > 0
        /\ ~TooEarly(i)
        /\ StrongEnough(vs, i)

\* FindPeaks without the single-element branch of lines 62-63
FindPeaks_NoSingle(vs) ==
    SelectSeq(Range(Len(vs)), LAMBDA i : IsPeak(vs, i))

\* lines 61-82: the candidate list in index order
FindPeaks(vs) ==
    IF Len(vs) = 1 THEN <<0>>
    ELSE SelectSeq(Range(Len(vs)), LAMBDA i : IsPeak(vs, i))

\* line 83: stable sort by value, descending (equal values keep list order)
SortPeaks(vs, ps) ==
    LET Before(a, b) ==
            \/ At(vs, ps[a]) > At(vs, ps[b])
            \/ At(vs, ps[a]) = At(vs, ps[b]) /\ a < b
        Rank(a) == Cardinality({b \in 1..Len(ps) : Before(b, a)})
    IN  [r \in 1..Len(ps) |-> ps[CHOOSE a \in 1..Len(ps) : Rank(a) = r - 1]]

\* lines 84-88: keep the first occurrence of each index
RECURSIVE Dedup(_, _)
Dedup(ps, dedup) ==
    IF ps = <<>> THEN dedup
    ELSE IF \E j \in 1..Len(dedup) : dedup[j] = Head(ps)
         THEN Dedup(Tail(ps), dedup)
         ELSE Dedup(Tail(ps), Append(dedup, Head(ps)))

\* AtLeastHalf with >= of lines 97 and 101 written as >
AtLeastHalf_Strict(v, peak_val) == 2 * v > peak_val

\* lines 97 and 101: is a sample at or above half of the peak value
AtLeastHalf(v, peak_val) == 2 * v >= peak_val

\* lines 96-98
RECURSIVE WalkLeft(_, _, _)
WalkLeft(vs, peak_val, left_idx) ==
    IF left_idx > 0 /\ AtLeastHalf(At(vs, left_idx - 1), peak_val)
    THEN WalkLeft(vs, peak_val, left_idx - 1)
    ELSE left_idx

\* lines 99-102
RECURSIVE WalkRight(_, _, _)
WalkRight(vs, peak_val, right_idx) ==
    IF right_idx < Len(vs) - 1 /\ AtLeastHalf(At(vs, right_idx + 1), peak_val)
    THEN WalkRight(vs, peak_val, right_idx + 1)
    ELSE right_idx

\* line 93: a peak whose value is not positive leaves its slot empty
SlotSkipped(peak_val) == peak_val <= 0

\* lines 92-102: the index bounds of one slot, None when the slot is skipped
HalfBounds(vs, idx) ==
    LET peak_val == At(vs, idx)
    IN  IF SlotSkipped(peak_val) THEN None
        ELSE <<WalkLeft(vs, peak_val, idx), WalkRight(vs, peak_val, idx)>>

\* line 103
IntervalOf(ts, b) ==
    IF b = None THEN None ELSE <<At(ts, b[1]), At(ts, b[2])>>

\* lines 58-104: the ranked peaks, the index bounds and the returned slots
TwoPeak(vs, ts) ==
    LET ps == IF Len(vs) = 0 THEN <<>>
              ELSE Dedup(SortPeaks(vs, FindPeaks(vs)), <<>>)
        bs == [slot \in 1..2 |->
                 IF slot <= Len(ps) THEN HalfBounds(vs, ps[slot]) ELSE None]
    IN  [peaks  |-> ps,
         bounds |-> bs,
         result |-> [slot \in 1..2 |-> IntervalOf(ts, bs[slot])]]

two_peak_half_intervals(vs, ts) == TwoPeak(vs, ts).result

----------------------------------------------------------------------------
(* build_window, lines 107-124, and auto_windows_from_scan, lines 127-134 *)

MinOf(S) == CHOOSE a \in S : \A b \in S : a <= b

MaxOf(S) == CHOOSE a \in S : \A b \in S : a >= b

build_window(intervals) ==
    LET present == {k \in 1..Len(intervals) : intervals[k] # None}
        lefts   == {intervals[k][1] : k \in present}
        rights  == {intervals[k][2] : k \in present}
    IN  IF lefts = {} \/ rights = {} THEN None
        ELSE LET t_env_min == MinOf(lefts)
                 t_env_max == MaxOf(rights)
                 tc_ov_min == MaxOf(lefts)
                 tc_ov_max == MinOf(rights)
             IN  IF ~(tc_ov_min <= tc_ov_max)
                 THEN <<t_env_min, t_env_max, t_env_min, t_env_max>>
                 ELSE <<t_env_min, t_env_max, tc_ov_min, tc_ov_max>>

\* line 130
PrimaryWindow(ci, xi) == build_window(<<ci[1], xi[1]>>)

\* lines 131-133
SecondaryWindow(ci, xi) ==
    IF ci[2] # None \/ xi[2] # None
    THEN build_window(<<ci[2], xi[2]>>)
    ELSE None

----------------------------------------------------------------------------
(* run_loglog_tc_scan, lines 137-189                                       *)
(*                                                                         *)
(* Temperatures, tc_min, tc_max and tc_step are integers, so the candidate *)
(* grid tc_min + i*tc_step is exact.  The regression runs in fixed point:  *)
(* logarithms and the slope are held in units of 1/FP; sum_x2, sum_xy, the *)
(* intercept, the mean, the residuals and their squares in units of        *)
(* 1/FP^2; r_squared in units of 1/R2Scale.  Each division of the source,  *)
(* and each squared residual, is rounded down to its grid, as the source   *)
(* rounds each result to a double.  The fixed-point r_squared is within    *)
(* a few hundredths of the double, so two candidates whose r_squared are   *)
(* that close can rank differently; the series drawn here keep the         *)
(* temperatures distinct, since with equal x the double denominator is     *)
(* rounding noise rather than exactly 0.  float("-inf") is NegInf, below   *)
(* every finite r_squared.                                                 *)

FP == 100

R2Scale == 1000

NegInf == -2147483647

\* math.log on 1..20 in units of 1/FP, rounded to nearest
LnTable ==
    <<0, 69, 110, 139, 161, 179, 195, 208, 220, 230,
      240, 248, 256, 264, 271, 277, 283, 289, 294, 300>>

Ln(k) == LnTable[k]

\* (a) ** 2 of lines 173-174, a and the square both in units of 1/FP^2
Sq(a) == (a * a) \div (FP * FP)

\* math.isfinite, line 185
IsFinite(r) == r # NegInf

\* round(a / b), line 147: Python rounds halves to the even neighbour
RoundHalfEven(a, b) ==
    LET num == IF b < 0 THEN 0 - a ELSE a
        den == IF b < 0 THEN 0 - b ELSE b
        q   == num \div den
        r   == num - q * den
    IN  IF 2 * r < den THEN q
        ELSE IF 2 * r > den THEN q + 1
        ELSE IF q % 2 = 0 THEN q ELSE q + 1

\* LoopCount with range(n_steps + 1) of line 148 written range(n_steps)
LoopCount_Short(n_steps) == n_steps

\* line 148: the number of loop iterations
LoopCount(n_steps) == n_steps + 1

\* line 147: int(round(...)) raises ZeroDivisionError when tc_step is 0
ScanRaises(k) == k.tc_step = 0

\* lines 147-151: the candidate tc values that get a record, in loop order
Candidates(k) ==
    LET n_steps == RoundHalfEven(k.tc_max - k.tc_min, k.tc_step)
        tcs     == [i \in 1..LoopCount(n_steps) |-> k.tc_min + (i - 1) * k.tc_step]
    IN  SelectSeq(tcs, LAMBDA tc : ~(tc < k.tc_min \/ tc > k.tc_max))

\* line 155: the indices of the (t, m) pairs used for candidate tc
FitIndices(ts, ms, k, tc) ==
    SelectSeq(Range(Min2(Len(ts), Len(ms))),
              LAMBDA j : /\ At(ts, j) < tc
                         /\ At(ts, j) >= k.t_min
                         /\ At(ts, j) <= k.t_max
                         /\ At(ms, j) > 0)

MinFitPoints == 4

\* TooFewPoints with the threshold 4 of line 158 written 3
TooFewPoints_Three(cnt) == cnt < MinFitPoints - 1

\* line 158
TooFewPoints(cnt) == cnt < MinFitPoints

\* lines 159 and 168: (tc, beta, r2, slope, intercept, n_points, is_valid)
SentinelRecord(tc, cnt) == <<tc, 0, NegInf, 0, 0, cnt, FALSE>>

\* lines 161-181: the least-squares fit of ys against xs (both in 1/FP)
Regression(tc, xs, ys) ==
    LET cnt    == Len(xs)
        sum_x  == SumSeq(xs)
        sum_y  == SumSeq(ys)
        sum_x2 == SumSeq([j \in 1..cnt |-> xs[j] * xs[j]])
        sum_xy == SumSeq([j \in 1..cnt |-> xs[j] * ys[j]])
        denom  == cnt * sum_x2 - sum_x * sum_x
    IN  IF denom = 0 THEN SentinelRecord(tc, cnt)
        ELSE LET slope     == ((cnt * sum_xy - sum_x * sum_y) * FP) \div denom
                 intercept == (sum_y * FP - slope * sum_x) \div cnt
                 mean_y    == (sum_y * FP) \div cnt
                 ss_tot    == SumSeq([j \in 1..cnt |-> Sq(ys[j] * FP - mean_y)])
                 ss_res    == SumSeq([j \in 1..cnt |->
                                  Sq(ys[j] * FP - (slope * xs[j] + intercept))])
                 r2        == IF ss_tot = 0 THEN R2Scale
                              ELSE R2Scale - (ss_res * R2Scale) \div ss_tot
                 is_valid  == slope > 0 /\ r2 > 0 /\ r2 <= R2Scale
                 beta      == slope
             IN  <<tc, beta, r2, slope, intercept, cnt, is_valid>>

\* lines 152-181: the record of one candidate
FitRecord(ts, ms, k, tc) ==
    LET idx == FitIndices(ts, ms, k, tc)
        xs  == [j \in 1..Len(idx) |-> Ln(tc - At(ts, idx[j]))]
        ys  == [j \in 1..Len(idx) |-> Ln(At(ms, idx[j]))]
    IN  IF TooFewPoints(Len(xs)) THEN SentinelRecord(tc, Len(xs))
        ELSE Regression(tc, xs, ys)

\* lines 146-181
ScanTable(ts, ms, k) ==
    LET tcs == Candidates(k)
    IN  [j \in 1..Len(tcs) |-> FitRecord(ts, ms, k, tcs[j])]

\* Qualifies without the is_valid test of line 185
Qualifies_IgnoreValid(r) == ~(~IsFinite(r[3]) \/ r[3] <= 0)

\* line 185: the record is not skipped by the selection loop
Qualifies(r) == ~(~r[7] \/ ~IsFinite(r[3]) \/ r[3] <= 0)

\* lines 182-188
RECURSIVE SelectBest(_, _)
SelectBest(rs, b) ==
    IF rs = <<>> THEN b
    ELSE LET r == Head(rs)
         IN  IF ~Qualifies(r) THEN SelectBest(Tail(rs), b)
             ELSE IF b = None \/ r[3] > b[3] THEN SelectBest(Tail(rs), r)
             ELSE SelectBest(Tail(rs), b)

----------------------------------------------------------------------------
(* main, lines 210-261 *)

\* lines 217-220: `args.x if args.x is not None else auto_x`
OrElse(opt, auto) == IF opt # None THEN opt[1] ELSE auto

\* ScanConfig that ignores the manual overrides
ScanConfig_NoOverride(prim, a) ==
    [t_min |-> prim[1], t_max |-> prim[2],
     tc_min |-> prim[3], tc_max |-> prim[4], tc_step |-> a.tcstep]

\* lines 215-222: the arguments main passes to run_loglog_tc_scan
ScanConfig(prim, a) ==
    [t_min   |-> OrElse(a.tmin, prim[1]),
     t_max   |-> OrElse(a.tmax, prim[2]),
     tc_min  |-> OrElse(a.tcmin, prim[3]),
     tc_max  |-> OrElse(a.tcmax, prim[4]),
     tc_step |-> a.tcstep]

----------------------------------------------------------------------------
(* Inputs *)

SeriesOf(n, hi) == [1..n -> 0..hi]

\* temperatures as recorded: ascending, or the same rows in reverse order
TempOrders(n) == {[k \in 1..n |-> k], [k \in 1..n |-> n + 1 - k]}

\* the end-to-end scenario of the specification
ScenarioTemps == <<1, 2, 3, 4, 5, 6, 7, 8, 9, 10>>

ScenarioC == <<1, 1, 1, 1, 1, 5, 9, 6, 2, 1>>

\* a series of zeros with a run of ones from index s to index e
Run(n, s, e) == [k \in 1..n |-> IF s <= k - 1 /\ k - 1 <= e THEN 1 ELSE 0]

Curves(n) == {[k \in 1..n |-> 0]} \cup {Run(n, s, e) : s \in 0..(n - 1), e \in 0..(n - 1)}

\* magnetization falling with the row number, and a flat one
MagCurves(n) == {[k \in 1..n |-> 1 + ((n - k) \div 2)], [k \in 1..n |-> 1]}

\* monotone series: the magnetization falls (or rises) along the scan
Monotone(n, hi) ==
    {m \in SeriesOf(n, hi) :
        \/ \A k \in 1..(n - 1) : m[k] >= m[k + 1]
        \/ \A k \in 1..(n - 1) : m[k] <= m[k + 1]}

NoConfig == [t_min |-> 0, t_max |-> 0, tc_min |-> 0, tc_max |-> 0, tc_step |-> 0]

NoArgs == [tmin |-> None, tmax |-> None, tcmin |-> None, tcmax |-> None, tcstep |-> 0]

PeakIdle ==
    /\ values = <<>> /\ peaks = <<>>
    /\ bounds = <<None, None>> /\ result = <<None, None>>

WindowIdle ==
    /\ c_vals = <<>> /\ x_vals = <<>> /\ args = NoArgs
    /\ c_ints = <<None, None>> /\ chi_ints = <<None, None>>
    /\ primary = None /\ secondary = None

MainIdle == scanCalls = 0 /\ written = FALSE

----------------------------------------------------------------------------
(* Specification SpecPeak: one call of two_peak_half_intervals *)

InitPeak ==
    /\ pc = "peak_call"
    /\ \/ \E n \in 0..MaxLen :
            /\ values \in SeriesOf(n, MaxVal)
            /\ temps \in TempOrders(n)
       \/ \E v \in (0 - MaxVal)..MaxVal, t \in 0..MaxLen :
            values = <<v>> /\ temps = <<t>>
       \/ values = ScenarioC /\ temps = ScenarioTemps
    /\ peaks = <<>>
    /\ bounds = <<None, None>>
    /\ result = <<None, None>>
    /\ WindowIdle /\ MainIdle
    /\ m_vals = <<>> /\ cfg = NoConfig /\ results = <<>> /\ best = None

Detect ==
    /\ pc = "peak_call"
    /\ LET d == TwoPeak(values, temps)
       IN  /\ peaks' = d.peaks
           /\ bounds' = d.bounds
           /\ result' = d.result
    /\ pc' = "peak_ret"
    /\ UNCHANGED <<values, temps, windowVars, scanVars, scanCalls, written>>

NextPeak == Detect

SpecPeak == InitPeak /\ [][NextPeak]_vars

----------------------------------------------------------------------------
(* Specification SpecScan: one call of run_loglog_tc_scan *)

InitScan ==
    /\ pc = "scan_call"
    /\ \/ temps = [k \in 1..ScanLen |-> k]
       \/ temps = [k \in 1..ScanLen |-> ScanLen + 1 - k]
    /\ m_vals \in Monotone(ScanLen, MaxMag)
    /\ \E t_min \in 1..2, tc_min \in (ScanLen - 1)..(ScanLen + 1),
          span \in 0..MaxTcSpan, tc_step \in (0 - 1)..MaxStep :
          cfg = [t_min |-> t_min, t_max |-> ScanLen,
                 tc_min |-> tc_min, tc_max |-> tc_min + span,
                 tc_step |-> tc_step]
    /\ results = <<>>
    /\ best = None
    /\ PeakIdle /\ WindowIdle /\ MainIdle

\* line 147 raises
ScanRaise ==
    /\ pc = "scan_call"
    /\ ScanRaises(cfg)
    /\ pc' = "scan_raised"
    /\ UNCHANGED <<temps, peakVars, windowVars, scanVars, scanCalls, written>>

\* lines 146-189 run to the return
ScanReturn ==
    /\ pc = "scan_call"
    /\ ~ScanRaises(cfg)
    /\ results' = ScanTable(temps, m_vals, cfg)
    /\ best' = SelectBest(results', None)
    /\ pc' = "scan_ret"
    /\ UNCHANGED <<temps, peakVars, windowVars, m_vals, cfg, scanCalls, written>>

NextScan == ScanRaise \/ ScanReturn

SpecScan == InitScan /\ [][NextScan]_vars

----------------------------------------------------------------------------
(* Specification SpecMain: main from the loaded scan (line 210) to the end *)

InitMain ==
    /\ pc = "main_loaded"
    /\ \E n \in {0, 1, MainLen} :
          /\ temps \in TempOrders(n)
          /\ c_vals \in Curves(n)
          /\ x_vals \in Curves(n)
          /\ m_vals \in MagCurves(n)
    /\ \E tcstep \in 0..1 :
          \/ args = [NoArgs EXCEPT !.tcstep = tcstep]
          \/ \E v \in {1, MainLen} :
                \/ args = [NoArgs EXCEPT !.tcstep = tcstep, !.tmin = <<v>>]
                \/ args = [NoArgs EXCEPT !.tcstep = tcstep, !.tmax = <<v>>]
                \/ args = [NoArgs EXCEPT !.tcstep = tcstep, !.tcmin = <<v>>]
                \/ args = [NoArgs EXCEPT !.tcstep = tcstep, !.tcmax = <<v + 1>>]
          \/ args = [tmin |-> <<1>>, tmax |-> <<MainLen>>, tcmin |-> <<MainLen>>,
                     tcmax |-> <<MainLen + 1>>, tcstep |-> tcstep]
    /\ c_ints = <<None, None>> /\ chi_ints = <<None, None>>
    /\ primary = None /\ secondary = None
    /\ cfg = NoConfig /\ results = <<>> /\ best = None
    /\ PeakIdle /\ MainIdle

\* line 212
AutoWindows ==
    /\ pc = "main_loaded"
    /\ c_ints' = two_peak_half_intervals(c_vals, temps)
    /\ chi_ints' = two_peak_half_intervals(x_vals, temps)
    /\ primary' = PrimaryWindow(c_ints', chi_ints')
    /\ secondary' = SecondaryWindow(c_ints', chi_ints')
    /\ pc' = "main_windows"
    /\ UNCHANGED <<temps, peakVars, c_vals, x_vals, args, scanVars, scanCalls, written>>

\* lines 213-214
FailNoWindow ==
    /\ pc = "main_windows"
    /\ primary = None
    /\ pc' = "main_fatal"
    /\ UNCHANGED <<temps, peakVars, windowVars, scanVars, scanCalls, written>>

\* lines 215-222, the call raising
RunScanRaise ==
    /\ pc = "main_windows"
    /\ primary # None
    /\ cfg' = ScanConfig(primary, args)
    /\ ScanRaises(cfg')
    /\ scanCalls' = scanCalls + 1
    /\ pc' = "main_raised"
    /\ UNCHANGED <<temps, peakVars, windowVars, m_vals, results, best, written>>

\* lines 215-222, the call returning
RunScan ==
    /\ pc = "main_windows"
    /\ primary # None
    /\ cfg' = ScanConfig(primary, args)
    /\ ~ScanRaises(cfg')
    /\ results' = ScanTable(temps, m_vals, cfg')
    /\ best' = SelectBest(results', None)
    /\ scanCalls' = scanCalls + 1
    /\ pc' = "main_scanned"
    /\ UNCHANGED <<temps, peakVars, windowVars, m_vals, written>>

\* lines 224-261
WriteOutput ==
    /\ pc = "main_scanned"
    /\ written' = TRUE
    /\ pc' = "main_done"
    /\ UNCHANGED <<temps, peakVars, windowVars, scanVars, scanCalls>>

NextMain == AutoWindows \/ FailNoWindow \/ RunScanRaise \/ RunScan \/ WriteOutput

SpecMain == InitMain /\ [][NextMain]_vars

----------------------------------------------------------------------------
(* Claims about two_peak_half_intervals, checked under SpecPeak *)

Returned == pc = "peak_ret"

InScenario == values = ScenarioC /\ temps = ScenarioTemps

\* C1 as stated: on the scenario series index 6 is accepted as the top peak
\* and the first slot is its half-maximum interval (temps[5], temps[7]).
C1_Original ==
    (Returned /\ InScenario) =>
        /\ Len(peaks) >= 1 /\ peaks[1] = 6
        /\ result[1] # None
        /\ result[1] = <<At(temps, 5), At(temps, 7)>>

\* C1 (amended): on the scenario series index 6 fails the strength test
\* (values[4] = 1 does not exceed the mean 10/6 of values[:6]), no index is a
\* peak, and the detector returns [None, None]: the heat-capacity curve gives
\* the primary window no interval.
C1_ScenarioHasNoPeak ==
    (Returned /\ InScenario) =>
        /\ peaks = <<>>
        /\ bounds = <<None, None>>
        /\ result = <<None, None>>

C1_Witness == Returned /\ InScenario /\ At(values, 6) = 9

\* C4 as stated: every single-element series returns (temps[0], temps[0]) in
\* the first slot and an empty second slot.
C4_Original ==
    (Returned /\ Len(values) = 1) =>
        /\ peaks = <<0>>
        /\ result = << <<At(temps, 0), At(temps, 0)>>, None >>

\* C4 (amended): for a single-element series element 0 is the sole peak and
\* the second slot is empty; the first slot is (temps[0], temps[0]) when the
\* value is positive and empty when the value is <= 0.
C4_SingleElement ==
    (Returned /\ Len(values) = 1) =>
        /\ peaks = <<0>>
        /\ result[2] = None
        /\ result[1] = IF At(values, 0) > 0
                       THEN <<At(temps, 0), At(temps, 0)>>
                       ELSE None

C4_Witness ==
    /\ Returned /\ Len(values) = 1 /\ At(values, 0) > 0
    /\ result[1] = <<At(temps, 0), At(temps, 0)>>

\* C5: in a series of more than one element no index below 5 is a peak, so
\* every non-empty slot is built from a peak at index >= 5, and both slots are
\* empty when there is no peak.
C5_NoEarlyPeak ==
    (Returned /\ Len(values) > 1) =>
        /\ \A j \in 1..Len(peaks) : peaks[j] >= 5
        /\ \A slot \in 1..2 :
              result[slot] # None =>
                  /\ slot <= Len(peaks)
                  /\ peaks[slot] >= 5
                  /\ bounds[slot][1] <= peaks[slot]
                  /\ peaks[slot] <= bounds[slot][2]
        /\ (peaks = <<>> => result = <<None, None>>)

\* a strict global maximum sits at an index below 5 and a later peak is used
C5_Witness ==
    /\ Returned /\ Len(values) > 1
    /\ \E i \in 0..4 :
          /\ i < Len(values)
          /\ \A j \in 0..(Len(values) - 1) : j # i => At(values, j) < At(values, i)
    /\ result[1] # None

\* C6: each non-empty slot is the maximal run of samples >= half the peak
\* value around the peak: the bounds enclose the peak, both bound samples are
\* >= half, the samples just outside (if any) are < half, every sample in
\* between is >= half, and the interval is the temperatures at the bounds.
C6_HalfMaxBounds ==
    Returned =>
        \A slot \in 1..2 :
            result[slot] # None =>
                LET idx  == peaks[slot]
                    pv   == At(values, idx)
                    lb   == bounds[slot][1]
                    rb   == bounds[slot][2]
                    last == Len(values) - 1
                IN  /\ lb <= idx /\ idx <= rb
                    /\ 0 <= lb /\ rb <= last
                    /\ 2 * At(values, lb) >= pv
                    /\ (lb = 0 \/ 2 * At(values, lb - 1) < pv)
                    /\ 2 * At(values, rb) >= pv
                    /\ (rb = last \/ 2 * At(values, rb + 1) < pv)
                    /\ \A j \in lb..rb : 2 * At(values, j) >= pv
                    /\ result[slot] = <<At(temps, lb), At(temps, rb)>>

\* both walks moved, both stopped at a sample below half, and a sample equal
\* to exactly half the peak value lies inside the interval
C6_Witness ==
    /\ Returned
    /\ \E slot \in 1..2 :
          /\ result[slot] # None
          /\ 0 < bounds[slot][1] /\ bounds[slot][1] < peaks[slot]
          /\ peaks[slot] < bounds[slot][2] /\ bounds[slot][2] < Len(values) - 1
          /\ \E j \in bounds[slot][1]..bounds[slot][2] :
                2 * At(values, j) = At(values, peaks[slot])

----------------------------------------------------------------------------
(* Claims about run_loglog_tc_scan, checked under SpecScan *)

ScanReturned == pc = "scan_ret"

\* the records the selection may return: valid, finite, positive r_squared
Eligible == {j \in 1..Len(results) :
                results[j][7] /\ results[j][3] # NegInf /\ results[j][3] > 0}

\* C3: best is the first record in scan order whose r_squared is maximal among
\* the valid records with finite positive r_squared; it is absent exactly when
\* there is no such record; an invalid or non-finite record is never best.
C3_BestIsFirstMax ==
    ScanReturned =>
        /\ (best = None) = (Eligible = {})
        /\ best # None =>
              /\ best[7] /\ best[3] # NegInf
              /\ \E j \in Eligible :
                    /\ best = results[j]
                    /\ \A k \in Eligible : results[k][3] <= results[j][3]
                    /\ \A k \in Eligible : k < j => results[k][3] < results[j][3]

\* mags = [3,3,3,2,1] on temps 1..5, tc = 4, 5, 6, 7: the record of tc = 4 is
\* a sentinel, best (tc = 6) replaced the eligible record of tc = 5 and was
\* kept against the eligible record of tc = 7
C3_Witness ==
    /\ ScanReturned
    /\ temps = <<1, 2, 3, 4, 5>> /\ m_vals = <<3, 3, 3, 2, 1>>
    /\ cfg = [t_min |-> 1, t_max |-> 5, tc_min |-> 4, tc_max |-> 7, tc_step |-> 1]
    /\ Len(results) = 4 /\ Eligible = {2, 3, 4}
    /\ best = results[3]
    /\ results[2][3] < best[3] /\ results[4][3] < best[3]

\* C8 as stated: run_loglog_tc_scan never raises, whatever the configuration.
C8_NeverRaises == pc # "scan_raised"

\* the number of (t, m) pairs with t_min <= t <= t_max, t < tc and m > 0
QualifyingPairs(tc) ==
    Cardinality({i \in 1..Len(temps) :
                    /\ cfg.t_min <= temps[i] /\ temps[i] <= cfg.t_max
                    /\ temps[i] < tc
                    /\ m_vals[i] > 0})

\* the candidates tc_min + i*tc_step inside [tc_min, tc_max], for tc_step > 0
Grid == {cfg.tc_min + i * cfg.tc_step :
            i \in 0..((cfg.tc_max - cfg.tc_min) \div cfg.tc_step)}

\* C9: a candidate with fewer than 4 qualifying pairs gets the record
\* (tc, 0, -inf, 0, 0, number of qualifying pairs, false); the record is in
\* the scan table and is never the best.
C9_TooFewPointsSentinel ==
    ScanReturned =>
        /\ \A j \in 1..Len(results) :
              QualifyingPairs(results[j][1]) < 4 =>
                  /\ results[j] = <<results[j][1], 0, NegInf, 0, 0,
                                    QualifyingPairs(results[j][1]), FALSE>>
                  /\ best # results[j]
        /\ cfg.tc_step > 0 =>
              \A tc \in Grid :
                  QualifyingPairs(tc) < 4 =>
                      \E j \in 1..Len(results) :
                          results[j] = <<tc, 0, NegInf, 0, 0, QualifyingPairs(tc), FALSE>>

\* mags = [3,3,3,2,1] on temps 1..5, tc = 4, 5, 6: tc = 4 has exactly 3
\* qualifying pairs and gets the sentinel, while the table has a best
C9_Witness ==
    /\ ScanReturned
    /\ temps = <<1, 2, 3, 4, 5>> /\ m_vals = <<3, 3, 3, 2, 1>>
    /\ cfg = [t_min |-> 1, t_max |-> 5, tc_min |-> 4, tc_max |-> 6, tc_step |-> 1]
    /\ QualifyingPairs(4) = 3
    /\ results[1] = <<4, 0, NegInf, 0, 0, 3, FALSE>>
    /\ best # None /\ best # results[1]

\* C10: for tc_step > 0 and tc_min <= tc_max the scan table holds exactly one
\* record per candidate tc_min + i*tc_step <= tc_max (i >= 0), in strictly
\* increasing tc order, and no other record.
C10_OneRecordPerCandidate ==
    (ScanReturned /\ cfg.tc_step > 0 /\ cfg.tc_min <= cfg.tc_max) =>
        /\ Len(results) = ((cfg.tc_max - cfg.tc_min) \div cfg.tc_step) + 1
        /\ \A j \in 1..Len(results) :
              /\ results[j][1] = cfg.tc_min + (j - 1) * cfg.tc_step
              /\ results[j][1] <= cfg.tc_max
        /\ \A j \in 1..(Len(results) - 1) : results[j][1] < results[j + 1][1]
        /\ {results[j][1] : j \in 1..Len(results)} = Grid

\* n_steps was rounded up, so the last loop iteration overshot tc_max and was
\* skipped, and the table still has more than one record
C10_Witness ==
    /\ ScanReturned /\ cfg.tc_step > 0
    /\ Len(results) >= 2
    /\ 2 * ((cfg.tc_max - cfg.tc_min) % cfg.tc_step) >= cfg.tc_step
    /\ results[Len(results)][1] + cfg.tc_step > cfg.tc_max

----------------------------------------------------------------------------
(* Claims about build_window and main, checked under SpecMain *)

Windows == {primary, secondary} \ {None}

\* C2 as stated: every window has t_env_min <= t_env_max and
\* tc_ov_min <= tc_ov_max, with the temperatures in the order given.
C2_WindowOrdered ==
    \A w \in Windows : w[1] <= w[2] /\ w[3] <= w[4]

NoFirstSlot == c_ints[1] = None /\ chi_ints[1] = None

AfterCheck == pc \in {"main_fatal", "main_raised", "main_scanned", "main_done"}

ScanCalled == pc \in {"main_raised", "main_scanned", "main_done"}

\* C7 as stated: the run ends in the fatal no-window error, before the scan
\* and before any output, exactly when neither curve has a first slot;
\* otherwise the scan is called exactly once, on the primary window.
C7_Original ==
    /\ pc = "main_fatal" => NoFirstSlot /\ scanCalls = 0 /\ ~written
    /\ (AfterCheck /\ NoFirstSlot) => pc = "main_fatal"
    /\ pc \in {"main_scanned", "main_done"} =>
          /\ primary # None
          /\ scanCalls = 1
          /\ <<cfg.t_min, cfg.t_max, cfg.tc_min, cfg.tc_max>> = primary

\* C7 (amended): the run ends in the fatal no-window error, before the scan
\* and before any output, exactly when neither curve has a first slot (manual
\* bounds do not rescue it); otherwise the primary window is present and the
\* scan is called exactly once, each of t_min, t_max, tc_min, tc_max being its
\* manual override when one is given and the primary window's bound when not;
\* the table and the best fit are those of that configuration alone, whatever
\* the secondary window.
C7_ScanOnPrimaryOrOverride ==
    /\ pc = "main_fatal" => NoFirstSlot /\ scanCalls = 0 /\ ~written
    /\ (AfterCheck /\ NoFirstSlot) => pc = "main_fatal"
    /\ ~ScanCalled => scanCalls = 0 /\ ~written
    /\ ScanCalled =>
          /\ primary # None
          /\ scanCalls = 1
          /\ cfg.t_min = (IF args.tmin = None THEN primary[1] ELSE args.tmin[1])
          /\ cfg.t_max = (IF args.tmax = None THEN primary[2] ELSE args.tmax[1])
          /\ cfg.tc_min = (IF args.tcmin = None THEN primary[3] ELSE args.tcmin[1])
          /\ cfg.tc_max = (IF args.tcmax = None THEN primary[4] ELSE args.tcmax[1])
          /\ cfg.tc_step = args.tcstep
    /\ pc \in {"main_scanned", "main_done"} =>
          /\ results = ScanTable(temps, m_vals, cfg)
          /\ best = SelectBest(results, None)

\* C = [0,0,0,1,1,1,1], chi = [0,0,1,1,1,1,1] on temps 1..7 with --tcmax 8:
\* the run finished with the override in force, a secondary window that
\* differs from the primary one, and a best fit
C7_Witness ==
    /\ pc = "main_done" /\ written
    /\ temps = <<1, 2, 3, 4, 5, 6, 7>>
    /\ c_vals = <<0, 0, 0, 1, 1, 1, 1>> /\ x_vals = <<0, 0, 1, 1, 1, 1, 1>>
    /\ m_vals = <<4, 3, 3, 2, 2, 1, 1>>
    /\ args = [NoArgs EXCEPT !.tcmax = <<8>>, !.tcstep = 1]
    /\ primary = <<3, 7, 4, 7>> /\ secondary = <<3, 7, 3, 7>>
    /\ cfg.tc_max = 8 /\ Len(results) = 5
    /\ best = results[4]

====
